---- MODULE Spec2Model ----
(***************************************************************************)
(* Transport state machine of vlc-midi-control.py: the polling loop of     *)
(* main() that reads MIDI messages from the input port and drives the VLC  *)
(* player (Program Change selects a medium, Control Change is play, pause  *)
(*                                                                         *)
(* or reset), after the start-up part of main() has read the setlist file  *)
(* and checked the files, the folders and the MIDI port.                   *)
(*                                                                         *)
(* A MIDI message is the tuple of its bytes and a setlist row is the tuple  *)
(* <<media_index, media_name, play_speed, start_time, end_time>>.          *)
(* At(s, i) is Python's s[i].  A text that is cut at ':' is the sequence   *)
(* of its parts, a part being <<"int", n>> when int() reads it as n and    *)
(* <<"str", s>> when int() raises ValueError; a line of the setlist file   *)
(* is the sequence of its comma-separated fields.                          *)
(***************************************************************************)
EXTENDS Integers, Sequences, FiniteSets, TLC

VARIABLES
    setlist_file,          \* the lines of the setlist file
    raw_setlist,           \* rows returned by read_setlist
    printed,               \* error messages printed by the start-up, in order
    exit_code,             \* <<n>> once exit(n) was called, <<>> before
    fatal,                 \* the start-up check that called exit, "" if none
    port_open,             \* open_port has returned
    verbose,               \* --verbose
    unsafeIgnoreMissingMedia,  \* --ignore-missing-media
    resolved_setlist,      \* rows of raw_setlist with resolved path, file order
    defaultMediaFile,      \* fallback medium, "" when none is configured
    fs,                    \* the paths that are regular files
    midi_channel,          \* listening channel, 0 when none is configured
    cmd_playpause_mode,    \* PLAYPAUSE_MODE_*
    cmd_playpause_status,  \* PLAYPAUSE_STATUS_*
    media_main,            \* path last given to player_main.set_media, "" if none
    player_calls,          \* calls made on player_main for the latest message
    last_call,             \* latest call made on player_main, "none" if none
    inmsg,                 \* latest message returned by get_message, <<>> if none
    port,                  \* messages queued on the input port
    arrived,               \* every message that reached the port, oldest first
    decoded,               \* what decode_midi_message and lines 777-778 give
                           \* for inmsg, <<>> before they are applied
    resolve_in,            \* the arguments of resolve_file_path
    resolve_out,           \* what resolve_file_path returned, call after call
    pc                     \* "start": main() begins;  "parse": read_setlist is
                           \* called;  "parsed": it has returned;
                           \* "decode", "decoded" and "resolve": a function is
                           \* applied on its own;
                           \* "poll": at get_message;  "grace": in time.sleep(5);
                           \* "while": at line 773;  "sleep": in time.sleep(0.010);
                           \* "exit": the process has ended

vars == <<resolved_setlist, defaultMediaFile, fs, midi_channel,
          cmd_playpause_mode, cmd_playpause_status, media_main,
          player_calls, last_call, inmsg, port, arrived, pc,
          setlist_file, raw_setlist, printed, exit_code, fatal, port_open,
          verbose, unsafeIgnoreMissingMedia, decoded, resolve_in, resolve_out>>

\* the functions that are applied on their own
applied == <<decoded, resolve_in, resolve_out>>

\* what the start-up leaves behind
startup == <<setlist_file, raw_setlist, printed, fatal, port_open,
             verbose, unsafeIgnoreMissingMedia>>

config == <<resolved_setlist, defaultMediaFile, fs, midi_channel,
            cmd_playpause_mode>>

----------------------------------------------------------------------------
(* Bounds of the model *)

MaxLen == 2
MaxKey == 1
MaxArrivals == 3
MaxLines == 3

----------------------------------------------------------------------------
(* Program constants *)

SETLIST_INDEX == 0
SETLIST_MEDIANAME == 1

PLAYPAUSE_MODE_PLAYONLY == 0
PLAYPAUSE_MODE_TOGGLE == 1

PLAYPAUSE_STATUS_PAUSE == 0
PLAYPAUSE_STATUS_PLAY == 1

NOTE_ON == 144
CONTROL_CHANGE == 176
PROGRAM_CHANGE == 192

----------------------------------------------------------------------------
(* Inputs *)

MediaNames == <<"m1", "m2", "m3", "m4">>
FallbackName == "dm"

Num(n) == <<"int", n>>
Txt(s) == <<"str", s>>

\* the texts "00:00:00" and "99:59:59" of lines 69 and 70
StartDefault == <<Num(0), Num(0), Num(0)>>
EndDefault == <<Num(99), Num(59), Num(59)>>

\* the row that line 106 appends for a line of two fields
Row(media_index, media_name) ==
    <<media_index, media_name, 100, StartDefault, EndDefault>>

\* the row of line i names the file MediaNames[i]
Setlists ==
    UNION {{[i \in 1..n |-> Row(k[i], MediaNames[i])] : k \in [1..n -> 0..MaxKey]}
           : n \in 1..MaxLen}

Files == {MediaNames[i] : i \in 1..MaxLen} \cup {FallbackName}

\* every key of a row and one program beyond them
Programs == 0..(MaxKey + 1)
\* the controller numbers the loop names: play, pause, up, down, reset
Controllers == {2, 3, 4, 5, 9}
Values == {0, 2, 3}
\* low nibble of the status byte: channels 1 and 2
Nibbles == {0, 1}
\* 0 when --midi-channel is not given, else the channel given
MidiChannels == {0, 1}

Messages ==
    {<<PROGRAM_CHANGE + n, p>> : n \in Nibbles, p \in Programs}
    \cup {<<CONTROL_CHANGE + n, c, v>> : n \in Nibbles, c \in Controllers, v \in Values}
    \cup {<<NOTE_ON + n, 60, 100>> : n \in Nibbles}

----------------------------------------------------------------------------
(* Helpers of the source *)

\* Python's 0-based subscript s[i]
At(s, i) == s[i + 1]

None == <<>>

RECURSIVE get_mediadesc_from(_, _, _)
get_mediadesc_from(setlist_table, media_index, i) ==
    IF i > Len(setlist_table) THEN None
    ELSE IF At(setlist_table[i], SETLIST_INDEX) = media_index THEN setlist_table[i]
    ELSE get_mediadesc_from(setlist_table, media_index, i + 1)

\* variant: the row at position media_index instead of the row with that key
get_mediadesc_by_position(setlist_table, media_index) ==
    IF media_index + 1 <= Len(setlist_table)
    THEN setlist_table[media_index + 1]
    ELSE None

get_mediadesc_by_index(setlist_table, media_index) ==
    get_mediadesc_from(setlist_table, media_index, 1)

check_file_exists(fullpath) == fullpath \in fs

\* msg[0] & 0xF0
MsgCommand(msg) == At(msg, 0) - (At(msg, 0) % 16)

\* variant: the channel without the + 1
MsgChannel_ZeroBased(msg) == At(msg, 0) % 16

\* (msg[0] & 0x0F) + 1
MsgChannel(msg) == (At(msg, 0) % 16) + 1

----------------------------------------------------------------------------
(* The setlist file *)

SETLIST_PLAYSPEED == 2
SETLIST_STARTTIME == 3
SETLIST_ENDTIME == 4

\* int(text) returns
is_int(text) == Len(text) = 1 /\ text[1][1] = "int"
int(text) == text[1][2]

\* variant: a minute count of 60 passes
validate_time_format_Minute60(time_str) ==
    /\ Len(time_str) = 3
    /\ \A i \in 1..3 : time_str[i][1] = "int"
    /\ LET hours == time_str[1][2]
           minutes == time_str[2][2]
           seconds == time_str[3][2]
       IN  0 <= hours /\ hours <= 99 /\ 0 <= minutes /\ minutes <= 60
           /\ 0 <= seconds /\ seconds < 60

\* lines 87-95: three parts, each read by int(), within the ranges of line 93
validate_time_format(time_str) ==
    /\ Len(time_str) = 3
    /\ \A i \in 1..3 : time_str[i][1] = "int"
    /\ LET hours == time_str[1][2]
           minutes == time_str[2][2]
           seconds == time_str[3][2]
       IN  0 <= hours /\ hours <= 99 /\ 0 <= minutes /\ minutes < 60
           /\ 0 <= seconds /\ seconds < 60

\* lines 50-106 from the line of number index + 1 on; the int() of line 64 is
\* outside the try of line 74, so its ValueError ends the function at line 113
RECURSIVE read_setlist_from(_, _, _, _)
read_setlist_from(file, index, setlist_table, out) ==
    IF index >= Len(file)
    THEN [table |-> setlist_table, printed |-> out]
    ELSE
    LET elements == At(file, index)
        play_speed_text == IF Len(elements) > SETLIST_PLAYSPEED
                           THEN At(elements, SETLIST_PLAYSPEED)
                           ELSE <<Num(100)>>
        start_time == IF Len(elements) > SETLIST_STARTTIME
                      THEN At(elements, SETLIST_STARTTIME)
                      ELSE StartDefault
        end_time == IF Len(elements) > SETLIST_ENDTIME
                    THEN At(elements, SETLIST_ENDTIME)
                    ELSE EndDefault
        skip(message) ==
            read_setlist_from(file, index + 1, setlist_table,
                              Append(out, <<message, index + 1>>))
    IN  IF elements = <<>>
        THEN read_setlist_from(file, index + 1, setlist_table, out)
        ELSE IF Len(elements) < 2
        THEN skip("Missing mandatory elements")
        ELSE IF ~is_int(At(elements, SETLIST_INDEX))
        THEN [table |-> <<>>,
              printed |-> Append(out, <<"Error reading the Setlist file", index + 1>>)]
        ELSE IF ~is_int(play_speed_text)
        THEN skip("is not an integer")
        ELSE IF ~validate_time_format(start_time)
        THEN skip("Invalid start time format")
        ELSE IF ~validate_time_format(end_time)
        THEN skip("Invalid end time format")
        ELSE read_setlist_from(file, index + 1,
                Append(setlist_table,
                       <<int(At(elements, SETLIST_INDEX)) - 1,
                         At(elements, SETLIST_MEDIANAME)[1][2],
                         int(play_speed_text), start_time, end_time>>),
                out)

\* lines 47-115; found is false when open() raises FileNotFoundError
read_setlist(found, file) ==
    IF found
    THEN read_setlist_from(file, 0, <<>>, <<>>)
    ELSE [table |-> <<>>, printed |-> <<<<"Setlist file not found", 0>>>>]

\* the texts of five times and of two more at the edge of line 93
TimeTexts ==
    {<<Num(23), Num(59), Num(59)>>, <<Num(24), Num(0), Num(0)>>,
     <<Num(12), Num(60), Num(0)>>, <<Num(12), Num(0), Num(60)>>,
     <<Num(12), Num(0)>>, <<Num(99), Num(59), Num(59)>>,
     <<Num(100), Num(0), Num(0)>>}

\* a line of two fields
Line(authored, media_name) == <<<<Num(authored)>>, <<Txt(media_name)>>>>

\* the lines of a setlist file: two lines of two fields, an empty line, a
\* line of one field, an index and a play speed that are no integers, and
\* lines with a start time or an end time
ParseLines ==
    {Line(1, MediaNames[1]), Line(2, MediaNames[2]),
     <<>>,
     <<<<Num(1)>>>>,
     <<<<Txt("x")>>, <<Txt(MediaNames[1])>>>>,
     Line(1, MediaNames[1]) \o <<<<Txt("fast")>>>>}
    \cup {Line(1, MediaNames[1]) \o <<<<Num(100)>>, t>> : t \in TimeTexts}
    \cup {Line(2, MediaNames[2]) \o <<<<Num(50)>>, StartDefault, t>>
            : t \in {<<Num(24), Num(0), Num(0)>>, <<Num(12), Num(0), Num(60)>>}}

ParseFiles == UNION {[1..n -> ParseLines] : n \in 0..MaxLines}

\* the setlist file that gives the rows of setlist
SetlistFileOf(setlist) ==
    [i \in 1..Len(setlist) |->
        Line(At(setlist[i], SETLIST_INDEX) + 1, At(setlist[i], SETLIST_MEDIANAME))]

----------------------------------------------------------------------------
(* Initial state: the end of the start-up part of main() *)

TypeOK ==
    /\ resolved_setlist \in Setlists
    /\ defaultMediaFile \in {"", FallbackName}
    /\ fs \subseteq Files
    /\ midi_channel \in MidiChannels
    /\ cmd_playpause_mode \in {PLAYPAUSE_MODE_PLAYONLY, PLAYPAUSE_MODE_TOGGLE}
    /\ cmd_playpause_status \in {PLAYPAUSE_STATUS_PAUSE, PLAYPAUSE_STATUS_PLAY}
    /\ media_main \in Files \cup {""}
    /\ last_call \in {"none", "stop", "play", "pause", "set_media"}
    /\ pc \in {"start", "parse", "parsed", "decode", "decoded", "resolve",
              "poll", "grace", "while", "sleep", "exit"}

\* a file that the configuration does not name is never looked at
InitFiles ==
    /\ defaultMediaFile \in {"", FallbackName}
    /\ fs \in SUBSET Files
    /\ FallbackName \in fs => defaultMediaFile = FallbackName

InitConfig ==
    /\ resolved_setlist \in Setlists
    /\ InitFiles
    /\ midi_channel \in MidiChannels

\* the start-up has run without a call of exit: every medium is there or
\* --ignore-missing-media was given (lines 671-684)
Started ==
    /\ setlist_file = SetlistFileOf(resolved_setlist)
    /\ raw_setlist = resolved_setlist
    /\ printed = <<>>
    /\ exit_code = <<>>
    /\ fatal = ""
    /\ port_open = TRUE
    /\ verbose = FALSE
    /\ unsafeIgnoreMissingMedia =
            (\E i \in 1..Len(resolved_setlist) :
                ~check_file_exists(At(resolved_setlist[i], SETLIST_MEDIANAME)))

\* no function is applied on its own
NotApplied ==
    /\ decoded = <<>>
    /\ resolve_in = <<>>
    /\ resolve_out = <<>>

InitLoop ==
    /\ Started
    /\ NotApplied
    /\ cmd_playpause_status = PLAYPAUSE_STATUS_PAUSE
    /\ media_main = ""
    /\ player_calls = <<>>
    /\ last_call = "none"
    /\ inmsg = <<>>
    /\ arrived = <<>>
    /\ pc = "poll"

Init ==
    /\ InitConfig
    /\ cmd_playpause_mode = PLAYPAUSE_MODE_TOGGLE
    /\ port = <<>>
    /\ InitLoop

----------------------------------------------------------------------------
(* Program Change: lines 787-817 *)

\* playlist_index >= 0 and playlist_index < len(resolved_setlist)
SelectionInRange(playlist_index) ==
    playlist_index >= 0 /\ playlist_index < Len(resolved_setlist)

\* media_desc and check_file_exists(media_desc[1])
MediaUsable(media_desc) ==
    media_desc # None /\ check_file_exists(At(media_desc, SETLIST_MEDIANAME))

\* which branch of lines 793-812 is taken for playlist_index
ProgramChangeBranch(playlist_index) ==
    IF SelectionInRange(playlist_index)
    THEN IF MediaUsable(get_mediadesc_by_index(resolved_setlist, playlist_index))
         THEN "load"
         ELSE IF check_file_exists(defaultMediaFile) THEN "fallback" ELSE "none"
    ELSE "out_of_range"

\* variant: without the player_main.stop() of line 788
ProgramChangeBegin_NoStop == <<>>

\* player_main.stop() of line 788
ProgramChangeBegin == <<"stop">>

\* variant: without the player_main.stop() of line 816
ProgramChangeEnd_Omitted == <<>>

\* player_main.stop() of line 816
ProgramChangeEnd == <<"stop">>

Last(calls) == calls[Len(calls)]

\* variant: the process ends when nothing can be selected
AfterProgramChange_ExitOnError(branch) ==
    CASE branch = "fallback" -> "grace"
      [] branch = "load" -> "poll"
      [] OTHER -> "exit"

\* where the loop is after lines 787-805: in time.sleep(5) of line 806, or
\* back at get_message
AfterProgramChange(branch) ==
    IF branch = "fallback" THEN "grace" ELSE "poll"

ProgramChange(msg) ==
    LET playlist_index == At(msg, 1)
        branch == ProgramChangeBranch(playlist_index)
        media_desc == get_mediadesc_by_index(resolved_setlist, playlist_index)
        calls == CASE branch = "load" ->
                        ProgramChangeBegin \o <<"set_media">> \o ProgramChangeEnd
                   [] branch = "fallback" ->
                        ProgramChangeBegin \o <<"set_media", "play">>
                   [] OTHER -> ProgramChangeBegin \o ProgramChangeEnd
    IN  /\ cmd_playpause_status' = PLAYPAUSE_STATUS_PAUSE
        /\ media_main' = CASE branch = "load" -> At(media_desc, SETLIST_MEDIANAME)
                           [] branch = "fallback" -> defaultMediaFile
                           [] OTHER -> media_main
        /\ player_calls' = calls
        /\ last_call' = IF calls = <<>> THEN last_call ELSE Last(calls)
        /\ pc' = AfterProgramChange(branch)

\* lines 806-808 and 816-817: the end of time.sleep(5) and the rest of the handler
GraceEnd ==
    /\ pc = "grace"
    /\ player_calls' = player_calls \o <<"stop">> \o ProgramChangeEnd
    /\ last_call' = "stop"
    /\ cmd_playpause_status' = PLAYPAUSE_STATUS_PAUSE
    /\ pc' = "poll"
    /\ UNCHANGED <<config, media_main, inmsg, port, arrived, startup, exit_code, applied>>

----------------------------------------------------------------------------
(* Control Change: lines 819-850 *)

\* variant: transport_cmd = msg[2], the value byte
TransportCmd_Value(msg) == At(msg, 2)

\* transport_cmd = msg[1]
TransportCmd(msg) == At(msg, 1)

\* variant: the mode is not looked at, the status is always flipped
PlayPause_AlwaysToggle(mode, status) ==
    IF status = PLAYPAUSE_STATUS_PAUSE
    THEN [call |-> "play", status |-> PLAYPAUSE_STATUS_PLAY]
    ELSE [call |-> "pause", status |-> PLAYPAUSE_STATUS_PAUSE]

\* lines 823-832: the call made and the new status for transport_cmd == 2
PlayPause(mode, status) ==
    IF mode = PLAYPAUSE_MODE_TOGGLE
    THEN IF status = PLAYPAUSE_STATUS_PAUSE
         THEN [call |-> "play", status |-> PLAYPAUSE_STATUS_PLAY]
         ELSE [call |-> "pause", status |-> PLAYPAUSE_STATUS_PAUSE]
    ELSE [call |-> "play", status |-> PLAYPAUSE_STATUS_PLAY]

\* variant: transport_cmd == 3 flips the status as transport_cmd == 2 does
Transport_PauseToggles(transport_cmd, mode, status) ==
    CASE transport_cmd = 2 -> PlayPause(mode, status)
      [] transport_cmd = 3 -> PlayPause(PLAYPAUSE_MODE_TOGGLE, status)
      [] transport_cmd = 9 -> [call |-> "stop", status |-> PLAYPAUSE_STATUS_PAUSE]
      [] OTHER -> [call |-> "", status |-> status]

\* variant: transport_cmd == 4 and 5 stop the player
Transport_UpDownStop(transport_cmd, mode, status) ==
    CASE transport_cmd = 2 -> PlayPause(mode, status)
      [] transport_cmd = 3 -> [call |-> "pause", status |-> PLAYPAUSE_STATUS_PAUSE]
      [] transport_cmd \in {4, 5, 9} -> [call |-> "stop", status |-> PLAYPAUSE_STATUS_PAUSE]
      [] OTHER -> [call |-> "", status |-> status]

\* variant: transport_cmd == 9 stops the player and leaves the status
Transport_ResetKeepsStatus(transport_cmd, mode, status) ==
    CASE transport_cmd = 2 -> PlayPause(mode, status)
      [] transport_cmd = 3 -> [call |-> "pause", status |-> PLAYPAUSE_STATUS_PAUSE]
      [] transport_cmd = 9 -> [call |-> "stop", status |-> status]
      [] OTHER -> [call |-> "", status |-> status]

\* lines 822-850: the call made ("" for none) and the new status
Transport(transport_cmd, mode, status) ==
    CASE transport_cmd = 2 -> PlayPause(mode, status)
      [] transport_cmd = 3 -> [call |-> "pause", status |-> PLAYPAUSE_STATUS_PAUSE]
      [] transport_cmd = 9 -> [call |-> "stop", status |-> PLAYPAUSE_STATUS_PAUSE]
      [] OTHER -> [call |-> "", status |-> status]

ControlChange(msg) ==
    LET t == Transport(TransportCmd(msg), cmd_playpause_mode, cmd_playpause_status)
    IN  /\ cmd_playpause_status' = t.status
        /\ player_calls' = IF t.call = "" THEN <<>> ELSE <<t.call>>
        /\ last_call' = IF t.call = "" THEN last_call ELSE t.call
        /\ UNCHANGED <<media_main, pc>>

\* a message on another channel or of another kind: nothing is done with it
Ignored ==
    /\ player_calls' = <<>>
    /\ UNCHANGED <<cmd_playpause_status, media_main, last_call, pc>>

----------------------------------------------------------------------------
(* The polling loop: lines 771-854 *)

\* channel == midi_channel
OnListeningChannel(msg) == MsgChannel(msg) = midi_channel

\* variant: messages are taken while the fallback medium plays
AtGetMessage_NotBlocking == pc \in {"poll", "grace"}

\* the single thread of main() is at line 774
AtGetMessage == pc = "poll"

\* one turn of the inner loop in which get_message returned msg
Dispatch(msg) ==
    /\ AtGetMessage
    /\ inmsg' = msg
    /\ IF OnListeningChannel(msg)
       THEN IF MsgCommand(msg) = PROGRAM_CHANGE THEN ProgramChange(msg)
            ELSE IF MsgCommand(msg) = CONTROL_CHANGE THEN ControlChange(msg)
            ELSE Ignored
       ELSE Ignored
    /\ UNCHANGED <<config, arrived, startup, exit_code, applied>>

\* a message reaches the empty port and the next get_message returns it
MidiIn ==
    \E msg \in Messages :
        /\ port = <<>>
        /\ Dispatch(msg)
        /\ UNCHANGED port

\* get_message returns the oldest message queued on the port
MidiQueued ==
    /\ port # <<>>
    /\ Dispatch(Head(port))
    /\ port' = Tail(port)

\* variant: the except clause does not stop the player
InterruptCalls_None == <<>>

\* line 857: player_main.stop()
InterruptCalls == <<"stop">>

\* lines 856-857: KeyboardInterrupt is raised inside the try of line 771, at
\* get_message or in a sleep, and main() returns after the except clause
Interrupt ==
    /\ pc \in {"poll", "grace"}
    /\ player_calls' = player_calls \o InterruptCalls
    /\ last_call' = IF InterruptCalls = <<>> THEN last_call ELSE Last(InterruptCalls)
    /\ pc' = "exit"
    /\ exit_code' = <<0>>
    /\ UNCHANGED <<config, cmd_playpause_status, media_main, inmsg, port, arrived,
                   startup, applied>>

Next == MidiIn \/ GraceEnd \/ Interrupt

Spec == Init /\ [][Next]_vars

----------------------------------------------------------------------------
(* Other specifications *)

\* the build whose line 765 assigns PLAYPAUSE_MODE_PLAYONLY
InitPlayOnly ==
    /\ InitConfig
    /\ cmd_playpause_mode = PLAYPAUSE_MODE_PLAYONLY
    /\ port = <<>>
    /\ InitLoop

SpecPlayOnly == InitPlayOnly /\ [][Next]_vars

\* either assignment of line 765, one row, its file and the fallback medium
\* present or not, channel 1
InitModes ==
    /\ resolved_setlist \in {<<Row(k, MediaNames[1])>> : k \in 0..MaxKey}
    /\ defaultMediaFile \in {"", FallbackName}
    /\ fs \in SUBSET {MediaNames[1], FallbackName}
    /\ FallbackName \in fs => defaultMediaFile = FallbackName
    /\ midi_channel = 1
    /\ cmd_playpause_mode \in {PLAYPAUSE_MODE_PLAYONLY, PLAYPAUSE_MODE_TOGGLE}
    /\ port = <<>>
    /\ InitLoop

SpecModes == InitModes /\ [][Next]_vars

\* variant: the authored index is kept as the key
MediaIndex_NoOffset(authored) == authored

\* line 64: media_index = int(elements[SETLIST_INDEX]) - 1
MediaIndex(authored) == authored - 1

\* the setlist "1,Track1" / "2,Track2,80,00:10:00,00:20:00"
ScenarioSetlist ==
    <<Row(MediaIndex(1), MediaNames[1]), Row(MediaIndex(2), MediaNames[2])>>

\* ProgramChange(program=1), ControlChange(c, v), ControlChange(c, v) on channel 1
ScenarioScripts ==
    {<<<<PROGRAM_CHANGE, 1>>, <<CONTROL_CHANGE, c, v>>, <<CONTROL_CHANGE, c, v>>>>
        : c \in Controllers, v \in Values}

InitScenario ==
    /\ resolved_setlist = ScenarioSetlist
    /\ InitFiles
    /\ midi_channel = 1
    /\ cmd_playpause_mode = PLAYPAUSE_MODE_TOGGLE
    /\ port \in ScenarioScripts
    /\ InitLoop

NextScenario == MidiQueued \/ GraceEnd

SpecScenario == InitScenario /\ [][NextScenario]_vars

\* messages that queue up on the port: program 0 and 1, play, up, a play for
\* channel 2 and a note
QueueMessages ==
    {<<PROGRAM_CHANGE, 0>>, <<PROGRAM_CHANGE, 1>>,
     <<CONTROL_CHANGE, 2, 0>>, <<CONTROL_CHANGE, 4, 0>>,
     <<CONTROL_CHANGE + 1, 2, 0>>, <<NOTE_ON, 60, 100>>}

\* rtmidi puts a message on the queue of the port while main() is anywhere
\* in the loop
Arrive ==
    /\ pc \in {"poll", "grace"}
    /\ Len(arrived) < MaxArrivals
    /\ \E msg \in QueueMessages :
            /\ port' = Append(port, msg)
            /\ arrived' = Append(arrived, msg)
    /\ UNCHANGED <<config, cmd_playpause_status, media_main, player_calls,
                   last_call, inmsg, pc, startup, exit_code, applied>>

\* one row, its file and the fallback medium present or not, channel 1
InitQueue ==
    /\ resolved_setlist \in {<<Row(k, MediaNames[1])>> : k \in 0..MaxKey}
    /\ defaultMediaFile \in {"", FallbackName}
    /\ fs \in SUBSET {MediaNames[1], FallbackName}
    /\ FallbackName \in fs => defaultMediaFile = FallbackName
    /\ midi_channel = 1
    /\ cmd_playpause_mode = PLAYPAUSE_MODE_TOGGLE
    /\ port = <<>>
    /\ InitLoop

NextQueue == Arrive \/ MidiQueued \/ GraceEnd \/ Interrupt

SpecQueue == InitQueue /\ [][NextQueue]_vars

----------------------------------------------------------------------------
(* The two loops of lines 772-854, position by position: "while" is the
   test of line 773, "poll" the get_message of line 774, "sleep" the
   time.sleep of line 854 *)

TickMessages == {<<PROGRAM_CHANGE, 0>>, <<CONTROL_CHANGE, 2, 0>>}

\* one row with key 0: either its file exists and there is no fallback
\* medium, or its file is missing and the fallback medium exists; channel 1
InitTick ==
    /\ resolved_setlist = <<Row(0, MediaNames[1])>>
    /\ fs \in {{MediaNames[1]}, {FallbackName}}
    /\ defaultMediaFile = IF FallbackName \in fs THEN FallbackName ELSE ""
    /\ midi_channel = 1
    /\ cmd_playpause_mode = PLAYPAUSE_MODE_TOGGLE
    /\ port = <<>>
    /\ InitLoop

\* rtmidi puts a message on the queue of the open port
TickArrive ==
    /\ pc \in {"poll", "grace", "while", "sleep"}
    /\ port_open
    /\ Len(arrived) < MaxArrivals
    /\ \E msg \in TickMessages :
            /\ port' = Append(port, msg)
            /\ arrived' = Append(arrived, msg)
    /\ UNCHANGED <<config, cmd_playpause_status, media_main, player_calls,
                   last_call, inmsg, pc, startup, exit_code, applied>>

\* lines 774-775: get_message returns None, "if inmsg" skips lines 776-852
\* and the inner loop goes back to its test
GetNone ==
    /\ pc = "poll"
    /\ port = <<>> \/ ~port_open
    /\ pc' = "while"
    /\ UNCHANGED <<config, cmd_playpause_status, media_main, player_calls,
                   last_call, inmsg, port, arrived, startup, exit_code, applied>>

\* lines 774-852: get_message returns the oldest message and the handler
\* runs; the test of line 773 that follows finds the port open
TickMessage == port_open /\ MidiQueued

\* line 773: is_port_open() is true, the inner loop goes on at line 774
WhileOpen ==
    /\ pc = "while"
    /\ port_open
    /\ pc' = "poll"
    /\ UNCHANGED <<config, cmd_playpause_status, media_main, player_calls,
                   last_call, inmsg, port, arrived, startup, exit_code, applied>>

\* line 773: is_port_open() is false, the inner loop ends and line 854 is
\* reached
WhileClosed ==
    /\ pc = "while"
    /\ ~port_open
    /\ pc' = "sleep"
    /\ UNCHANGED <<config, cmd_playpause_status, media_main, player_calls,
                   last_call, inmsg, port, arrived, startup, exit_code, applied>>

\* line 854 returns after 10 ms; lines 772 and 773 follow
Wake ==
    /\ pc = "sleep"
    /\ pc' = "while"
    /\ UNCHANGED <<config, cmd_playpause_status, media_main, player_calls,
                   last_call, inmsg, port, arrived, startup, exit_code, applied>>

\* the library starts to answer False to is_port_open(): main() never
\* closes the port, the outer loop of line 772 is written for this answer
PortCloses ==
    /\ pc \in {"poll", "while"}
    /\ port_open
    /\ port_open' = FALSE
    /\ UNCHANGED <<config, cmd_playpause_status, media_main, player_calls,
                   last_call, inmsg, port, arrived, pc, exit_code, applied,
                   setlist_file, raw_setlist, printed, fatal, verbose,
                   unsafeIgnoreMissingMedia>>

\* the steps of the thread of main()
TickLoop == GetNone \/ TickMessage \/ WhileOpen \/ WhileClosed \/ Wake \/ GraceEnd

NextTick == TickLoop \/ TickArrive \/ PortCloses \/ Interrupt

\* the thread of main() is never suspended for ever; messages, the closing
\* of the port and Ctrl-C may never come
SpecTick == InitTick /\ [][NextTick]_vars /\ WF_vars(TickLoop)

----------------------------------------------------------------------------
(* read_setlist on its own *)

\* main() has not run: nothing is configured, no player call was made
NotStarted ==
    /\ resolved_setlist = <<>>
    /\ defaultMediaFile = ""
    /\ midi_channel = 0
    /\ cmd_playpause_mode = PLAYPAUSE_MODE_TOGGLE
    /\ cmd_playpause_status = PLAYPAUSE_STATUS_PAUSE
    /\ media_main = ""
    /\ player_calls = <<>>
    /\ last_call = "none"
    /\ port = <<>>
    /\ arrived = <<>>
    /\ raw_setlist = <<>>
    /\ printed = <<>>
    /\ exit_code = <<>>
    /\ fatal = ""
    /\ port_open = FALSE

InitParse ==
    /\ NotStarted
    /\ NotApplied
    /\ inmsg = <<>>
    /\ setlist_file \in ParseFiles
    /\ fs = {}
    /\ verbose = FALSE
    /\ unsafeIgnoreMissingMedia = FALSE
    /\ pc = "parse"

\* line 654: raw_setlist = read_setlist(args.setlist), the file being there
ReadSetlist ==
    /\ pc = "parse"
    /\ LET result == read_setlist(TRUE, setlist_file)
       IN  /\ raw_setlist' = result.table
           /\ printed' = result.printed
    /\ pc' = "parsed"
    /\ UNCHANGED <<config, cmd_playpause_status, media_main, player_calls,
                   last_call, inmsg, port, arrived, setlist_file, exit_code,
                   fatal, port_open, verbose, unsafeIgnoreMissingMedia, applied>>

NextParse == ReadSetlist

SpecParse == InitParse /\ [][NextParse]_vars

----------------------------------------------------------------------------
(* decode_midi_message and the decoding of lines 777-778 on their own *)

\* Python's a & b on integers that are not negative
RECURSIVE BitAnd(_, _)
BitAnd(a, b) ==
    IF a = 0 \/ b = 0 THEN 0
    ELSE (a % 2) * (b % 2) + 2 * BitAnd(a \div 2, b \div 2)

\* variant: without the entry of 0xF0
MIDI_COMMANDS_NoSystem ==
    (128 :> "Note Off") @@ (144 :> "Note On")
    @@ (160 :> "Polyphonic Key Pressure") @@ (176 :> "Control Change")
    @@ (192 :> "Program Change") @@ (208 :> "Channel Pressure")
    @@ (224 :> "Pitch Bend")

\* lines 277-286
MIDI_COMMANDS ==
    (128 :> "Note Off") @@ (144 :> "Note On")
    @@ (160 :> "Polyphonic Key Pressure") @@ (176 :> "Control Change")
    @@ (192 :> "Program Change") @@ (208 :> "Channel Pressure")
    @@ (224 :> "Pitch Bend") @@ (240 :> "System Message")

\* lines 297-343: the parts of the output text: the name (a text of the
\* table, or "Unknown" with the command in hexadecimal), the channel and
\* the label of the parameters
decode_midi_message(message) ==
    LET status == At(message, 0)
        command == BitAnd(status, 240)
        channel == BitAnd(status, 15) + 1
    IN  [command |-> command,
         command_name |-> IF command \in DOMAIN MIDI_COMMANDS
                          THEN <<MIDI_COMMANDS[command]>>
                          ELSE <<"Unknown", command>>,
         channel |-> channel,
         parameters |-> CASE command \in {128, 144} -> "Note, Velocity"
                          [] command = 160 -> "Note, Pressure"
                          [] command = 176 -> "Controller, Value"
                          [] command = 192 -> "Program"
                          [] command = 208 -> "Pressure"
                          [] command = 224 -> "Pitch Bend"
                          [] command = 240 -> "Data"
                          [] OTHER -> "Raw data"]

\* a message of three bytes for every status byte
DecodeMessages == {<<status, 60, 100>> : status \in 0..255}

InitDecode ==
    /\ NotStarted
    /\ inmsg \in DecodeMessages
    /\ decoded = <<>>
    /\ resolve_in = <<>>
    /\ resolve_out = <<>>
    /\ setlist_file = <<>>
    /\ fs = {}
    /\ verbose = FALSE
    /\ unsafeIgnoreMissingMedia = FALSE
    /\ pc = "decode"

\* decode_midi_message(msg), the call that line 782 holds as a comment, and
\* the two assignments of lines 777 and 778, for the same message
Decode ==
    /\ pc = "decode"
    /\ decoded' = [output |-> decode_midi_message(inmsg),
                   command |-> MsgCommand(inmsg),
                   channel |-> MsgChannel(inmsg)]
    /\ pc' = "decoded"
    /\ UNCHANGED <<config, cmd_playpause_status, media_main, player_calls,
                   last_call, inmsg, port, arrived, startup, exit_code,
                   resolve_in, resolve_out>>

NextDecode == Decode

SpecDecode == InitDecode /\ [][NextDecode]_vars

----------------------------------------------------------------------------
(* resolve_file_path on its own.  A file text is a sequence of tokens: the
   separator "/", the dot ".", or a run of other characters. *)

MaxCalls == 2

\* the position of the last token tok of text, 0 when there is none
\* (str.rfind of os.path.splitext, counted from 1)
rfind(text, tok) ==
    IF \E i \in 1..Len(text) : text[i] = tok
    THEN CHOOSE i \in 1..Len(text) :
             /\ text[i] = tok
             /\ \A j \in (i + 1)..Len(text) : text[j] # tok
    ELSE 0

\* line 197-198: os.path.isabs of a POSIX path
test_filename_has_fullpath(filename) ==
    filename # <<>> /\ filename[1] = "/"

\* variant: no file name has an extension
test_filename_has_extension_Never(filename) == FALSE

\* lines 200-201: bool(os.path.splitext(filename)[1]); the extension starts
\* at the last dot, when that dot is after the last separator and a
\* character other than a dot stands between the two
test_filename_has_extension(filename) ==
    LET sepIndex == rfind(filename, "/")
        dotIndex == rfind(filename, ".")
    IN  /\ dotIndex > sepIndex
        /\ \E filenameIndex \in (sepIndex + 1)..(dotIndex - 1) :
               filename[filenameIndex] # "."

\* os.path.join(a, b) of line 130, POSIX
join(a, b) ==
    IF b # <<>> /\ b[1] = "/" THEN b
    ELSE IF a = <<>> \/ a[Len(a)] = "/" THEN a \o b
    ELSE a \o <<"/">> \o b

\* lines 117-132
resolve_file_path(filename, default_path, default_ext) ==
    LET with_ext ==
            IF ~test_filename_has_extension(filename) /\ default_ext # <<>>
            THEN (IF default_ext[1] # "." THEN filename \o <<".">> ELSE filename)
                 \o default_ext
            ELSE filename
    IN  IF ~test_filename_has_fullpath(with_ext) /\ default_path # <<>>
        THEN join(default_path, with_ext)
        ELSE with_ext

\* file names: with and without a full path, with and without an extension,
\* a hidden file, a dot in the directory only, a dot at the end
FileTexts ==
    {<<"/", "d", "/", "m", ".", "x">>, <<"/", "d", "/", "m">>,
     <<"m", ".", "x">>, <<"m">>,
     <<"/", ".", "h">>, <<"/", ".", "h", ".", "x">>,
     <<"/", "d", ".", "x", "/", "m">>, <<"/", "m", ".">>}

DefaultPaths == {<<>>, <<"/", "p">>, <<"/", "p", "/">>, <<"p">>}

DefaultExts == {<<>>, <<"x">>, <<".", "x">>}

InitResolve ==
    /\ NotStarted
    /\ inmsg = <<>>
    /\ decoded = <<>>
    /\ resolve_in \in [filename : FileTexts, default_path : DefaultPaths,
                        default_ext : DefaultExts]
    /\ resolve_out = <<>>
    /\ setlist_file = <<>>
    /\ fs = {}
    /\ verbose = FALSE
    /\ unsafeIgnoreMissingMedia = FALSE
    /\ pc = "resolve"

\* a call of resolve_file_path: on the file name given, then on what the
\* call before returned
ResolveFilePath ==
    /\ pc = "resolve"
    /\ Len(resolve_out) < MaxCalls
    /\ resolve_out' =
           Append(resolve_out,
                  resolve_file_path(IF resolve_out = <<>> THEN resolve_in.filename
                                    ELSE Last(resolve_out),
                                    resolve_in.default_path, resolve_in.default_ext))
    /\ UNCHANGED <<config, cmd_playpause_status, media_main, player_calls,
                   last_call, inmsg, port, arrived, startup, exit_code,
                   decoded, resolve_in, pc>>

NextResolve == ResolveFilePath

SpecResolve == InitResolve /\ [][NextResolve]_vars

----------------------------------------------------------------------------
(* The start-up part of main() *)

ConfigName == "cfg"
SetlistName == "set"
PathName == "dir"
ExtName == "mp3"
LivePrompterName == "lp"
PortName == "in"

\* the command line: "" is an option that is not given
StartupArgs ==
    [config : {"", ConfigName},
     setlist : {"", SetlistName},
     path : {"", PathName},
     extension : {"", ExtName},
     liveprompter : {"", LivePrompterName},
     midi_input : {"", PortName},
     midi_channel : {<<>>, <<Num(1)>>},
     default_missing_media : {"", FallbackName},
     ignore_missing_media : BOOLEAN,
     verbose : BOOLEAN]

\* what the start-up finds outside the process: the files and folders named
\* on the command line, the ports of rtmidi and the result of open_port
Environments ==
    [config_isfile : BOOLEAN,
     setlist_isfile : BOOLEAN,
     path_isdir : BOOLEAN,
     ext_in_path : BOOLEAN,
     liveprompter_isdir : BOOLEAN,
     inputports_table : {<<>>, <<<<PortName, 0>>>>},
     open_port_ok : BOOLEAN]

\* what the start-up does not look at is left at one value
Consulted(args, env) ==
    /\ args.config = "" => env.config_isfile
    /\ args.setlist = "" => env.setlist_isfile
    /\ args.path = "" => env.path_isdir
    /\ (args.path = "" \/ args.extension = "" \/ ~env.path_isdir) => env.ext_in_path
    /\ args.liveprompter = "" => env.liveprompter_isdir
    /\ args.midi_input = "" => env.inputports_table = <<>>
    /\ env.inputports_table = <<>> => env.open_port_ok

\* A media name n of the start-up stands for the file text "/n.mp3", the
\* path "dir" for the text "/dir" and the extension "mp3" for "mp3"
PathText(name) == <<"/", name, ".", ExtName>>

DirText(path) == IF path = "" THEN <<>> ELSE <<"/", path>>

ExtText(extension) == IF extension = "" THEN <<>> ELSE <<extension>>

\* the media name that a file text stands for; "?" for a text that is not
\* the text of a name
NameOfText(text) ==
    IF Len(text) = 4 /\ text[1] = "/" /\ text[3] = "." /\ text[4] = ExtName
    THEN text[2]
    ELSE "?"

\* lines 573 and 144: resolve_file_path on a media name of the start-up
resolved_name(name, default_path, default_ext) ==
    NameOfText(resolve_file_path(PathText(name), DirText(default_path),
                                 ExtText(default_ext)))

\* lines 134-146
resolve_setlist_files_path(setlist_table, default_path, default_ext) ==
    [i \in 1..Len(setlist_table) |->
        <<At(setlist_table[i], 0),
          resolved_name(At(setlist_table[i], 1), default_path, default_ext),
          At(setlist_table[i], 2), At(setlist_table[i], 3), At(setlist_table[i], 4)>>]

\* lines 237-242: the id of the port of that name, -1 when there is none
\* or when no name is given
get_portid_by_name(port_name, ports_table) ==
    IF port_name # "" /\ \E i \in 1..Len(ports_table) : ports_table[i][1] = port_name
    THEN (CHOOSE row \in {ports_table[i] : i \in 1..Len(ports_table)} :
                row[1] = port_name)[2]
    ELSE -1

\* variant: an empty setlist passes
EmptySetlist_Never(setlist_table) == FALSE

\* lines 661 and 667: not raw_setlist, not resolved_setlist
EmptySetlist(setlist_table) == setlist_table = <<>>

\* variant: the first row only is looked at
AnyMediaMissing_FirstOnly(setlist_table) ==
    /\ setlist_table # <<>>
    /\ ~check_file_exists(At(setlist_table[1], 1))

\* lines 674-678: disperror after the for loop
AnyMediaMissing(setlist_table) ==
    \E i \in 1..Len(setlist_table) : ~check_file_exists(At(setlist_table[i], 1))

\* lines 674-680: disperror stays set, so from the first missing medium on
\* every row is printed as not found
RECURSIVE MissingMediaPrints(_, _, _)
MissingMediaPrints(setlist_table, i, disperror) ==
    IF i > Len(setlist_table) THEN <<>>
    ELSE LET fileok == check_file_exists(At(setlist_table[i], 1))
             now == disperror \/ ~fileok
         IN  (IF now THEN <<<<"Media not found", i>>>> ELSE <<>>)
             \o MissingMediaPrints(setlist_table, i + 1, now)

FatalKinds ==
    {"config_not_found", "setlist_not_found", "path_not_found",
     "no_file_with_extension", "liveprompter_with_setlist",
     "liveprompter_dir_missing", "liveprompter_without_setlist",
     "empty_setlist", "missing_media", "port_not_found", "port_open_failed"}

\* the argument of exit() at lines 597, 602, 607, 612, 630, 634, 639, 663,
\* 669, 684, 748 and 759
ExitCode(kind) ==
    IF kind \in {"empty_setlist", "missing_media", "port_open_failed"}
    THEN 2
    ELSE 1

\* what is printed before exit() is called
Diagnostic(kind, setlist_table, is_verbose) ==
    CASE kind = "config_not_found" ->
            <<<<"Configuration file could not be found", 0>>>>
      [] kind = "setlist_not_found" ->
            <<<<"SetList file could not be found", 0>>>>
      [] kind = "path_not_found" ->
            <<<<"Path could not be found", 0>>>>
      [] kind = "no_file_with_extension" ->
            <<<<"No file with extension could be found", 0>>>>
      [] kind = "liveprompter_with_setlist" ->
            <<<<"--liveprompter and --setlist are mutually exclusive", 0>>>>
      [] kind = "liveprompter_dir_missing" -> <<>>
      [] kind = "liveprompter_without_setlist" ->
            <<<<"--setlist is required when using --liveprompter", 0>>>>
      [] kind = "empty_setlist" ->
            <<<<"Empty setlist", 0>>>>
      [] kind = "missing_media" ->
            MissingMediaPrints(setlist_table, 1, FALSE)
            \o <<<<"At least 1 media file could not be found", 0>>,
                 <<"Check the setlist and path", 0>>>>
      [] kind = "port_not_found" ->
            <<<<"MIDI port not found", 0>>>>
      [] kind = "port_open_failed" ->
            IF is_verbose
            THEN <<<<"Unable to open the selected MIDI Input Port", 0>>>>
            ELSE <<>>
      [] OTHER -> <<>>

\* lines 594-643: the checks made before the setlist file is read
FatalBeforeSetlist(args, env) ==
    IF args.config # "" /\ ~env.config_isfile THEN "config_not_found"
    ELSE IF args.setlist # "" /\ ~env.setlist_isfile THEN "setlist_not_found"
    ELSE IF args.path # "" /\ ~env.path_isdir THEN "path_not_found"
    ELSE IF args.path # "" /\ args.extension # "" /\ ~env.ext_in_path
    THEN "no_file_with_extension"
    ELSE IF args.liveprompter # ""
    THEN IF args.setlist # "" THEN "liveprompter_with_setlist"
         ELSE IF ~env.liveprompter_isdir THEN "liveprompter_dir_missing"
         ELSE "liveprompter_without_setlist"
    ELSE ""

\* lines 661-759: the checks made once the setlist is read
FatalAfterSetlist(args, env, raw, resolved) ==
    IF EmptySetlist(raw) THEN "empty_setlist"
    ELSE IF EmptySetlist(resolved) THEN "empty_setlist"
    ELSE IF ~args.ignore_missing_media /\ AnyMediaMissing(resolved)
    THEN "missing_media"
    ELSE IF get_portid_by_name(args.midi_input, env.inputports_table) = -1
    THEN "port_not_found"
    ELSE IF ~env.open_port_ok THEN "port_open_failed"
    ELSE ""

\* lines 555-769: main() from its first statement to the loop or to exit()
Startup ==
    /\ pc = "start"
    /\ \E args \in StartupArgs, env \in Environments :
        /\ Consulted(args, env)
        /\ LET before == FatalBeforeSetlist(args, env)
               result == IF args.setlist # ""
                         THEN read_setlist(TRUE, setlist_file)
                         ELSE [table |-> <<>>, printed |-> <<>>]
               resolved == resolve_setlist_files_path(result.table, args.path,
                                                      args.extension)
               kind == IF before # "" THEN before
                       ELSE FatalAfterSetlist(args, env, result.table, resolved)
               channel_set == kind \in {"", "port_not_found", "port_open_failed"}
           IN  /\ verbose' = args.verbose
               /\ unsafeIgnoreMissingMedia' = args.ignore_missing_media
               /\ defaultMediaFile' =
                      IF args.default_missing_media # ""
                      THEN resolved_name(args.default_missing_media,
                                         args.path, args.extension)
                      ELSE ""
               /\ raw_setlist' = IF before = "" THEN result.table ELSE <<>>
               /\ resolved_setlist' =
                      IF before = "" /\ kind # "empty_setlist" THEN resolved ELSE <<>>
               /\ midi_channel' = IF channel_set /\ args.midi_channel # <<>>
                                  THEN int(args.midi_channel)
                                  ELSE 0
               /\ printed' = (IF before = "" THEN result.printed ELSE <<>>)
                             \o Diagnostic(kind, resolved, args.verbose)
               /\ fatal' = kind
               /\ exit_code' = IF kind = "" THEN <<>> ELSE <<ExitCode(kind)>>
               /\ port_open' = (kind = "")
               /\ pc' = IF kind = "" THEN "poll" ELSE "exit"
    /\ cmd_playpause_mode' = PLAYPAUSE_MODE_TOGGLE
    /\ cmd_playpause_status' = PLAYPAUSE_STATUS_PAUSE
    /\ UNCHANGED <<fs, setlist_file, media_main, player_calls, last_call,
                   inmsg, port, arrived, applied>>

\* the setlist files of the start-up: an empty file, one line, two lines, a
\* line of one field, a line with an index that is no integer
StartupFiles ==
    {<<>>,
     <<Line(1, MediaNames[1])>>,
     <<Line(1, MediaNames[1]), Line(2, MediaNames[2])>>,
     <<<<<<Num(1)>>>>>>,
     <<Line(1, MediaNames[1]), <<<<Txt("x")>>, <<Txt(MediaNames[2])>>>>>>}

InitStartup ==
    /\ NotStarted
    /\ NotApplied
    /\ inmsg = <<>>
    /\ setlist_file \in StartupFiles
    /\ fs \in SUBSET {MediaNames[1], MediaNames[2], FallbackName}
    /\ verbose = FALSE
    /\ unsafeIgnoreMissingMedia = FALSE
    /\ pc = "start"

\* one of a few messages reaches the empty port and get_message returns it
MidiSome ==
    \E msg \in QueueMessages :
        /\ port = <<>>
        /\ Dispatch(msg)
        /\ UNCHANGED port

NextStartup == Startup \/ MidiSome \/ GraceEnd \/ Interrupt

SpecStartup == InitStartup /\ [][NextStartup]_vars

----------------------------------------------------------------------------
(* Vocabulary of the properties *)

Range(s) == {s[i] : i \in 1..Len(s)}

IsProgramChange(msg) ==
    msg # <<>> /\ MsgCommand(msg) = PROGRAM_CHANGE /\ OnListeningChannel(msg)

IsControlChange(msg) ==
    msg # <<>> /\ MsgCommand(msg) = CONTROL_CHANGE /\ OnListeningChannel(msg)

\* the loop is back at get_message after a Program Change on the listening channel
HandledProgramChange == pc = "poll" /\ IsProgramChange(inmsg)

\* the loop is back at get_message after a Control Change on the listening channel
HandledControlChange == pc = "poll" /\ IsControlChange(inmsg)

\* the step is a turn of the inner loop, which returns inmsg' from get_message
LoopTurn == pc = "poll" /\ pc' # "exit"

\* the first row whose key is program, None if there is none
EntryOf(program) ==
    LET hits == {i \in 1..Len(resolved_setlist) :
                    At(resolved_setlist[i], SETLIST_INDEX) = program}
    IN  IF hits = {} THEN None
        ELSE resolved_setlist[CHOOSE i \in hits : \A j \in hits : i <= j]

\* set_media, then play, then stop occur in this order in calls
LoadedPlayedStopped(calls) ==
    \E i, j, k \in 1..Len(calls) :
        /\ i < j /\ j < k
        /\ calls[i] = "set_media" /\ calls[j] = "play" /\ calls[k] = "stop"

Paused == cmd_playpause_status = PLAYPAUSE_STATUS_PAUSE
Playing == cmd_playpause_status = PLAYPAUSE_STATUS_PLAY

----------------------------------------------------------------------------
(* Program Change properties *)

\* C1: once a Program Change on the listening channel has been handled to the
\* end, the status is Paused and the latest call on the player is stop,
\* whatever branch was taken and whatever the status was before.
C1_PausedAfterProgramChange ==
    HandledProgramChange => (Paused /\ last_call = "stop")

\* a Program Change that played the fallback medium has been handled to the end
C1_Witness ==
    /\ HandledProgramChange
    /\ "play" \in Range(player_calls)
    /\ Paused /\ last_call = "stop"

\* C2 as claimed: whenever a row has the key program and its file exists, a
\* Program Change for program loads the medium of that row, also when program
\* is not below the number of rows.
C2_Claim_LookupByKey ==
    HandledProgramChange =>
        LET media_desc == EntryOf(At(inmsg, 1))
        IN  (media_desc # None /\ check_file_exists(At(media_desc, SETLIST_MEDIANAME)))
                => /\ media_main = At(media_desc, SETLIST_MEDIANAME)
                   /\ "set_media" \in Range(player_calls)

\* C3 as claimed: whenever the program has no row or the file of its row is
\* missing, and the fallback medium exists, the fallback medium is loaded,
\* played and stopped, also when program is not below the number of rows.
C3_Claim_FallbackPlayed ==
    HandledProgramChange =>
        LET media_desc == EntryOf(At(inmsg, 1))
        IN  (/\ \/ media_desc = None
                \/ ~check_file_exists(At(media_desc, SETLIST_MEDIANAME))
             /\ check_file_exists(defaultMediaFile))
                => /\ media_main = defaultMediaFile
                   /\ LoadedPlayedStopped(player_calls)

\* C4: a Program Change whose program is the key of no row, when no fallback
\* medium is configured, makes no set_media and no play call, ends with a stop
\* call and status Paused, and leaves the loaded medium as it was.
C4_NoMatchNoFallback ==
    [][(/\ LoopTurn
        /\ IsProgramChange(inmsg')
        /\ EntryOf(At(inmsg', 1)) = None
        /\ defaultMediaFile = "")
            => /\ pc' = "poll"
               /\ "set_media" \notin Range(player_calls')
               /\ "play" \notin Range(player_calls')
               /\ last_call' = "stop"
               /\ cmd_playpause_status' = PLAYPAUSE_STATUS_PAUSE
               /\ media_main' = media_main]_vars

\* such a Program Change has been handled while a medium was loaded
C4_Witness ==
    /\ HandledProgramChange
    /\ EntryOf(At(inmsg, 1)) = None
    /\ defaultMediaFile = ""
    /\ media_main # ""
    /\ player_calls = <<"stop", "stop">>

----------------------------------------------------------------------------
(* Control Change properties *)

\* the step handles a Control Change received on the listening channel
ControlChangeStep == LoopTurn /\ IsControlChange(inmsg')

\* the status is flipped: play from Paused, pause from Playing
Flips ==
    IF cmd_playpause_status = PLAYPAUSE_STATUS_PAUSE
    THEN player_calls' = <<"play">> /\ cmd_playpause_status' = PLAYPAUSE_STATUS_PLAY
    ELSE player_calls' = <<"pause">> /\ cmd_playpause_status' = PLAYPAUSE_STATUS_PAUSE

\* neither a play call nor status Playing comes out of the step
NeverStarts ==
    /\ "play" \notin Range(player_calls')
    /\ cmd_playpause_status = PLAYPAUSE_STATUS_PAUSE
          => cmd_playpause_status' = PLAYPAUSE_STATUS_PAUSE

\* C5 as claimed: in Toggle mode a Control Change whose value (third byte) is 2
\* flips the status for any controller number, and one whose value is not 2
\* never starts playback.
C5_Claim_ValueTwoToggles ==
    [][(ControlChangeStep /\ cmd_playpause_mode = PLAYPAUSE_MODE_TOGGLE)
            => IF At(inmsg', 2) = 2 THEN Flips ELSE NeverStarts]_vars

\* C5 amended: in Toggle mode a Control Change whose controller number (second
\* byte) is 2 flips the status for any value: play and Playing from Paused,
\* pause and Paused from Playing; one whose controller number is not 2 never
\* calls play and never turns Paused into Playing.
C5_ControllerTwoToggles ==
    [][(ControlChangeStep /\ cmd_playpause_mode = PLAYPAUSE_MODE_TOGGLE)
            => IF At(inmsg', 1) = 2 THEN Flips ELSE NeverStarts]_vars

\* controller 2 with a value other than 2 has paused a playing player
C5_Witness ==
    /\ HandledControlChange
    /\ cmd_playpause_mode = PLAYPAUSE_MODE_TOGGLE
    /\ At(inmsg, 1) = 2 /\ At(inmsg, 2) # 2
    /\ player_calls = <<"pause">>
    /\ Paused

C7_Claim_ValuePauseReset ==
    [][ControlChangeStep
            => /\ At(inmsg', 2) = 3 =>
                    /\ player_calls' = <<"pause">>
                    /\ cmd_playpause_status' = PLAYPAUSE_STATUS_PAUSE
               /\ At(inmsg', 2) = 9 =>
                    /\ player_calls' = <<"stop">>
                    /\ cmd_playpause_status' = PLAYPAUSE_STATUS_PAUSE]_vars

\* C7 amended: a Control Change whose controller number (second byte) is 3
\* calls pause, one whose controller number is 9 calls stop, nothing else is
\* called (never play), and the status is Paused after either, whatever it was
\* before, so also when the same command is repeated.
C7_ControllerPauseReset ==
    [][ControlChangeStep
            => /\ At(inmsg', 1) = 3 =>
                    /\ player_calls' = <<"pause">>
                    /\ cmd_playpause_status' = PLAYPAUSE_STATUS_PAUSE
               /\ At(inmsg', 1) = 9 =>
                    /\ player_calls' = <<"stop">>
                    /\ cmd_playpause_status' = PLAYPAUSE_STATUS_PAUSE]_vars

\* controller 3 with a value other than 3 has called pause
C7_Witness ==
    /\ HandledControlChange
    /\ At(inmsg, 1) = 3 /\ At(inmsg, 2) # 3
    /\ player_calls = <<"pause">>
    /\ Paused

\* the step handles a message of the listening channel that is neither a
\* Program Change nor a Control Change
OtherKindStep ==
    /\ LoopTurn
    /\ inmsg' # <<>>
    /\ OnListeningChannel(inmsg')
    /\ MsgCommand(inmsg') \notin {PROGRAM_CHANGE, CONTROL_CHANGE}

\* status and loaded medium stay as they are and the player is not called
NoEffect ==
    /\ cmd_playpause_status' = cmd_playpause_status
    /\ media_main' = media_main
    /\ player_calls' = <<>>
    /\ last_call' = last_call

\* C8 as claimed: a Control Change whose value (third byte) is not 2, 3 or 9,
\* and a message of any other kind than Program Change and Control Change,
\* changes neither status nor loaded medium and makes no call on the player.
C8_Claim_OtherValuesIgnored ==
    [][((ControlChangeStep /\ At(inmsg', 2) \notin {2, 3, 9}) \/ OtherKindStep)
            => NoEffect]_vars

\* C8 amended: a Control Change whose controller number (second byte) is not
\* 2, 3 or 9 (4 and 5 included), and a message of any other kind than Program
\* Change and Control Change, changes neither status nor loaded medium and
\* makes no call on the player.
C8_OtherControllersIgnored ==
    [][((ControlChangeStep /\ At(inmsg', 1) \notin {2, 3, 9}) \/ OtherKindStep)
            => NoEffect]_vars

\* controller 4 or 5 has been handled while a loaded medium was playing
C8_Witness ==
    /\ HandledControlChange
    /\ At(inmsg, 1) \in {4, 5} /\ At(inmsg, 2) \in {2, 3, 9}
    /\ player_calls = <<>>
    /\ Playing /\ media_main # ""

----------------------------------------------------------------------------
(* Channel filter *)

\* the MIDI channel of a status byte: low nibble plus one
WireChannel(msg) == (At(msg, 0) % 16) + 1

\* C9: a message whose channel is not the listening channel changes neither
\* status nor loaded medium and makes no call on the player.
C9_OtherChannelIgnored ==
    [][(LoopTurn /\ inmsg' # <<>> /\ WireChannel(inmsg') # midi_channel)
            => NoEffect]_vars

\* a Program Change of another channel has been read while the player of a
\* configured listening channel was playing
C9_Witness ==
    /\ pc = "poll"
    /\ inmsg # <<>>
    /\ WireChannel(inmsg) # midi_channel
    /\ midi_channel = 1
    /\ MsgCommand(inmsg) = PROGRAM_CHANGE
    /\ player_calls = <<>>
    /\ Playing /\ last_call = "play"

----------------------------------------------------------------------------
(* The scenario of two rows authored as 1 and 2 *)

\* the Control Change of the script
ScenarioCC == IF port # <<>> THEN port[Len(port)] ELSE inmsg

BothExist == {MediaNames[1], MediaNames[2]} \subseteq fs

\* Paused after the first message, Playing after the second, Paused after the
\* third, and the row authored as 2 loaded after each
ScenarioOutcome ==
    /\ media_main = MediaNames[2]
    /\ Len(port) = 2 => Paused
    /\ Len(port) = 1 => Playing
    /\ Len(port) = 0 => Paused

\* C10 as claimed: with both files present, ProgramChange(1) followed by two
\* Control Changes of value 2, for any controller number, loads the row
\* authored as 2 and gives Paused, Playing, Paused.
C10_Claim_ScenarioAnyController ==
    (pc = "poll" /\ Len(port) < 3 /\ BothExist /\ At(ScenarioCC, 2) = 2)
        => ScenarioOutcome

\* C10 amended: with both files present, ProgramChange(1) followed by two
\* Control Changes of controller number 2, for any value, loads the row
\* authored as 2 and gives Paused, Playing, Paused, the same medium being
\* loaded after each of the three messages.
C10_ScenarioControllerTwo ==
    (pc = "poll" /\ Len(port) < 3 /\ BothExist /\ At(ScenarioCC, 1) = 2)
        => ScenarioOutcome

\* the three messages have been handled, the Control Changes being controller
\* 2 with a value other than 2
C10_Witness ==
    /\ pc = "poll" /\ port = <<>>
    /\ BothExist
    /\ At(ScenarioCC, 1) = 2 /\ At(ScenarioCC, 2) # 2
    /\ media_main = MediaNames[2]
    /\ Paused /\ last_call = "pause"

----------------------------------------------------------------------------
(* Order of handling, default channel, interrupt *)

\* the number of messages taken from the port so far
NHandled == Len(arrived) - Len(port)

\* the port holds the messages not yet taken, oldest first, and the latest
\* message taken is the one just before them
InArrivalOrder ==
    /\ NHandled >= 0
    /\ port = SubSeq(arrived, NHandled + 1, Len(arrived))
    /\ inmsg = IF NHandled = 0 THEN <<>> ELSE arrived[NHandled]

\* C11: the messages are taken from the port in the order of their arrival,
\* none is skipped, and a message is taken only when the handler of the one
\* before it has run to its end, the grace sleep of the fallback medium
\* included; while that handler runs only arrivals change the port.
C11_HandledInArrivalOrder ==
    /\ []InArrivalOrder
    /\ [][/\ Len(port') < Len(port) =>
                /\ pc = "poll"
                /\ inmsg' = Head(port)
                /\ port' = Tail(port)
          /\ pc = "grace" =>
                /\ inmsg' = inmsg
                /\ Len(port') >= Len(port)]_vars

\* a play was queued behind a Program Change that played the fallback medium,
\* and it has been applied after the handler of the Program Change
C11_Witness ==
    /\ pc = "poll"
    /\ Len(arrived) = 2 /\ port = <<>>
    /\ At(arrived[1], 0) = PROGRAM_CHANGE
    /\ arrived[2] = <<CONTROL_CHANGE, 2, 0>>
    /\ media_main = FallbackName
    /\ player_calls = <<"play">>
    /\ Playing

\* C12 as claimed: when no listening channel is configured (midi_channel is
\* 0), a Program Change or a play whose status byte has low nibble 0 is handled
\* as on channel 1: the player is called.
C12_Claim_DefaultChannelOne ==
    (/\ pc = "poll"
     /\ midi_channel = 0
     /\ inmsg # <<>>
     /\ At(inmsg, 0) % 16 = 0)
        => /\ MsgCommand(inmsg) = PROGRAM_CHANGE => "stop" \in Range(player_calls)
           /\ (MsgCommand(inmsg) = CONTROL_CHANGE /\ At(inmsg, 1) = 2)
                => player_calls # <<>>

\* C13: when the process has ended on an operator interrupt, the latest call
\* on the player is stop, wherever the loop was interrupted.
C13_StoppedOnInterrupt ==
    pc = "exit" => last_call = "stop"

\* the interrupt came while the fallback medium was playing
C13_Witness ==
    /\ pc = "exit"
    /\ player_calls = <<"stop", "set_media", "play", "stop">>
    /\ last_call = "stop"

\* the troublesome messages: a Program Change that selects nothing, a message
\* of another channel, a controller number without action, a note
Troublesome(msg) ==
    \/ WireChannel(msg) # midi_channel
    \/ MsgCommand(msg) \notin {PROGRAM_CHANGE, CONTROL_CHANGE}
    \/ MsgCommand(msg) = CONTROL_CHANGE /\ At(msg, 1) \notin {2, 3, 9}
    \/ /\ MsgCommand(msg) = PROGRAM_CHANGE
       /\ LET media_desc == EntryOf(At(msg, 1))
          IN  \/ media_desc = None
              \/ ~check_file_exists(At(media_desc, SETLIST_MEDIANAME))

\* C14: the loop is left by the operator interrupt only: every other step
\* leaves it at get_message or in the grace sleep, and at get_message the
\* oldest queued message can always be taken.
C14_OnlyInterruptEndsLoop ==
    /\ [][(pc \in {"poll", "grace"} /\ ~Interrupt) => pc' \in {"poll", "grace"}]_vars
    /\ []((pc = "poll" /\ port # <<>>) => ENABLED MidiQueued)

\* three troublesome messages have been handled one after the other
C14_Witness ==
    /\ pc = "poll"
    /\ Len(arrived) = 3 /\ port = <<>>
    /\ \A i \in 1..3 : Troublesome(arrived[i])
    /\ At(arrived[1], 0) = PROGRAM_CHANGE
    /\ arrived[2] # arrived[1]
    /\ arrived[3] # arrived[2] /\ arrived[3] # arrived[1]

----------------------------------------------------------------------------
(* The setlist file *)

\* a text of three integers within 0..max_hours, 0..59 and 0..59
TimeWithin(time_str, max_hours) ==
    /\ Len(time_str) = 3
    /\ \A i \in 1..3 : time_str[i][1] = "int" /\ time_str[i][2] >= 0
    /\ time_str[1][2] <= max_hours
    /\ time_str[2][2] <= 59
    /\ time_str[3][2] <= 59

IntegerIndex(line) == Len(line[1]) = 1 /\ line[1][1][1] = "int"

\* a line that passes every validation: two fields or more, an integer index,
\* an integer play speed and times within max_hours when they are given
ValidLine(line, max_hours) ==
    /\ Len(line) >= 2
    /\ IntegerIndex(line)
    /\ Len(line) >= 3 => (Len(line[3]) = 1 /\ line[3][1][1] = "int")
    /\ Len(line) >= 4 => TimeWithin(line[4], max_hours)
    /\ Len(line) >= 5 => TimeWithin(line[5], max_hours)

\* the entry of a valid line: index minus one, name, and the defaults for
\* what the line does not give
EntryOfLine(line) ==
    <<line[1][1][2] - 1,
      line[2][1][2],
      IF Len(line) >= 3 THEN line[3][1][2] ELSE 100,
      IF Len(line) >= 4 THEN line[4] ELSE StartDefault,
      IF Len(line) >= 5 THEN line[5] ELSE EndDefault>>

\* the entries of the valid lines, in file order
RECURSIVE ValidEntries(_, _)
ValidEntries(lines, max_hours) ==
    IF lines = <<>> THEN <<>>
    ELSE (IF ValidLine(Head(lines), max_hours)
          THEN <<EntryOfLine(Head(lines))>>
          ELSE <<>>) \o ValidEntries(Tail(lines), max_hours)

\* no line of two fields or more has an index that is not an integer
EveryIndexInteger ==
    \A i \in 1..Len(setlist_file) :
        Len(setlist_file[i]) >= 2 => IntegerIndex(setlist_file[i])

\* C15 as claimed: read_setlist returns exactly the entries of the valid
\* lines in file order, whichever validation the other lines fail (fewer than
\* two fields, index or play speed not an integer, invalid start or end time).
C15_Claim_OnlyBadLinesDropped ==
    pc = "parsed" => raw_setlist = ValidEntries(setlist_file, 99)

\* C16 as claimed: a time is valid only with three integer fields, hours at
\* most 23, minutes and seconds below 60; the lines with valid fields are in
\* the setlist and a line with a rejected time is not.
C16_Claim_HoursAtMost23 ==
    (pc = "parsed" /\ EveryIndexInteger)
        => raw_setlist = ValidEntries(setlist_file, 23)

\* C16: a time is valid only with three integer fields, hours at most 99,
\* minutes and seconds below 60: "23:59:59" and "24:00:00" are accepted,
\* "12:60:00", "12:00:60" and "12:00" are rejected; the lines with valid
\* fields are in the setlist and a line with a rejected time is not.
C16_HoursAtMost99 ==
    (pc = "parsed" /\ EveryIndexInteger)
        => raw_setlist = ValidEntries(setlist_file, 99)

\* a file with the start times "23:59:59", "12:60:00" and "24:00:00" has been
\* read: the first and the third line are in the setlist
C16_Witness ==
    /\ pc = "parsed"
    /\ setlist_file =
         <<Line(1, MediaNames[1]) \o <<<<Num(100)>>, <<Num(23), Num(59), Num(59)>>>>,
           Line(1, MediaNames[1]) \o <<<<Num(100)>>, <<Num(12), Num(60), Num(0)>>>>,
           Line(1, MediaNames[1]) \o <<<<Num(100)>>, <<Num(24), Num(0), Num(0)>>>>>>
    /\ Len(raw_setlist) = 2
    /\ At(raw_setlist[2], SETLIST_STARTTIME) = <<Num(24), Num(0), Num(0)>>

----------------------------------------------------------------------------
(* The start-up *)

\* the loop has been entered: main() is in it, or has handled a message or
\* called the player
LoopEntered ==
    \/ pc \in {"poll", "grace"}
    \/ inmsg # <<>>
    \/ player_calls # <<>>

MissingRows ==
    {i \in 1..Len(resolved_setlist) :
        At(resolved_setlist[i], SETLIST_MEDIANAME) \notin fs}

\* C17: without --ignore-missing-media the loop is entered, and a message
\* handled, only when every path of the resolved setlist is a file: one
\* missing file ends the start-up; with the option the start-up never ends
\* on a missing medium.
C17_MissingMediaStopsStartup ==
    /\ (LoopEntered /\ ~unsafeIgnoreMissingMedia) => MissingRows = {}
    /\ (pc = "exit" /\ ~unsafeIgnoreMissingMedia /\ MissingRows # {}) => ~LoopEntered
    /\ fatal = "missing_media" => (~unsafeIgnoreMissingMedia /\ MissingRows # {})

\* with the option, the loop runs and has handled a Program Change although
\* the second of two media is missing
C17_Witness ==
    /\ pc = "poll"
    /\ unsafeIgnoreMissingMedia
    /\ Len(resolved_setlist) = 2
    /\ MissingRows = {2}
    /\ inmsg # <<>> /\ MsgCommand(inmsg) = PROGRAM_CHANGE
    /\ last_call = "stop"

\* C18: when read_setlist has given no row (no setlist given, file not read,
\* every line rejected) the start-up has ended the process with an exit code
\* that is not 0 and the loop was not entered, --ignore-missing-media given
\* or not.
C18_EmptySetlistStopsStartup ==
    (pc # "start" /\ raw_setlist = <<>>)
        => /\ pc = "exit"
           /\ exit_code # <<>> /\ exit_code[1] # 0
           /\ ~LoopEntered

\* every line of the file was rejected and --ignore-missing-media was given
C18_Witness ==
    /\ pc = "exit"
    /\ unsafeIgnoreMissingMedia
    /\ setlist_file # <<>>
    /\ printed # <<>> /\ printed[1][1] = "Missing mandatory elements"
    /\ raw_setlist = <<>>
    /\ fatal = "empty_setlist"
    /\ exit_code = <<2>>

\* C19 as claimed: when the start-up has ended the process on a fatal error,
\* an error message was printed, no MIDI port was opened and the loop was not
\* entered, verbose or not.
C19_Claim_FatalErrorPrinted ==
    (pc = "exit" /\ fatal # "")
        => /\ printed # <<>>
           /\ ~port_open
           /\ ~LoopEntered

\* C20 as claimed: the exit code of a start-up that failed is the code of no
\* other kind of failure.
C20_Claim_ExitCodePerKind ==
    (pc = "exit" /\ fatal # "")
        => \A kind \in FatalKinds \ {fatal} : ExitCode(kind) # exit_code[1]

----------------------------------------------------------------------------
(* Keys of the setlist, order of the player calls, armed medium *)

\* C21 as claimed: the table returned by read_setlist never holds two rows
\* with the same key, and two valid lines with the same index give a
\* diagnostic.
C21_Claim_UniqueKeys ==
    pc = "parsed"
        => /\ \A i, j \in 1..Len(raw_setlist) :
                i # j => At(raw_setlist[i], SETLIST_INDEX) # At(raw_setlist[j], SETLIST_INDEX)
           /\ (\E i, j \in 1..Len(setlist_file) :
                  /\ i # j
                  /\ ValidLine(setlist_file[i], 99) /\ ValidLine(setlist_file[j], 99)
                  /\ setlist_file[i][1] = setlist_file[j][1])
                => printed # <<>>

\* in calls, a stop comes before every set_media with no play in between
StoppedBeforeEveryLoad(calls) ==
    \A i \in 1..Len(calls) :
        calls[i] = "set_media"
            => \E j \in 1..(i - 1) :
                    /\ calls[j] = "stop"
                    /\ \A k \in (j + 1)..(i - 1) : calls[k] # "play"

\* C24: in the handler of a Program Change on the listening channel the first
\* call on the player is stop and the status is Paused from then on; a medium
\* is given to the player only after a stop with no play in between.
C24_StoppedBeforeLoading ==
    (/\ pc \in {"poll", "grace"}
     /\ inmsg # <<>>
     /\ At(inmsg, 0) - (At(inmsg, 0) % 16) = PROGRAM_CHANGE
     /\ WireChannel(inmsg) = midi_channel)
        => /\ player_calls # <<>>
           /\ player_calls[1] = "stop"
           /\ StoppedBeforeEveryLoad(player_calls)
           /\ Paused

\* a medium was loaded and started, and the next Program Change has loaded it
\* again after stopping the player
C24_Witness ==
    /\ pc = "poll"
    /\ Len(arrived) = 3 /\ port = <<>>
    /\ At(arrived[1], 0) = PROGRAM_CHANGE
    /\ arrived[2] = <<CONTROL_CHANGE, 2, 0>>
    /\ At(arrived[3], 0) = PROGRAM_CHANGE
    /\ player_calls = <<"stop", "set_media", "stop">>
    /\ media_main = MediaNames[1]

\* C26: whenever the loop is at get_message, the status is Playing exactly
\* when the latest call on the player was play, and Paused exactly when no
\* call was made yet or the latest was pause or stop, in both modes.
C26_StatusFollowsLastCall ==
    pc = "poll"
        => /\ Playing <=> last_call = "play"
           /\ Paused <=> last_call \in {"none", "pause", "stop"}

\* PlayOnly mode: a second play while Playing
C26_Witness ==
    /\ pc = "poll"
    /\ cmd_playpause_mode = PLAYPAUSE_MODE_PLAYONLY
    /\ Playing
    /\ inmsg # <<>> /\ At(inmsg, 0) = CONTROL_CHANGE /\ At(inmsg, 1) = 2
    /\ player_calls = <<"play">>
    /\ media_main = FallbackName

\* the selection of msg fails: no row has the program as key, or the file of
\* that row is missing
FailedSelection(msg) ==
    /\ msg # <<>>
    /\ At(msg, 0) - (At(msg, 0) % 16) = PROGRAM_CHANGE
    /\ WireChannel(msg) = midi_channel
    /\ LET media_desc == EntryOf(At(msg, 1))
       IN  \/ media_desc = None
           \/ At(media_desc, SETLIST_MEDIANAME) \notin fs

\* C27 as claimed: the play that follows a Program Change whose selection
\* failed does not start the player on a medium: no medium is armed.
C27_Claim_NothingArmedAfterFailure ==
    [][(/\ LoopTurn
        /\ FailedSelection(inmsg)
        /\ inmsg' # <<>>
        /\ At(inmsg', 0) - (At(inmsg', 0) % 16) = CONTROL_CHANGE
        /\ WireChannel(inmsg') = midi_channel
        /\ At(inmsg', 1) = 2)
            => ~("play" \in Range(player_calls') /\ media_main' # "")]_vars

\* C28 as claimed: when the start-up ends on a missing medium, the rows
\* printed as not found are exactly the rows whose file does not exist.
C28_Claim_ReportedIffMissing ==
    fatal = "missing_media"
        => \A i \in 1..Len(resolved_setlist) :
                (\E k \in 1..Len(printed) : printed[k] = <<"Media not found", i>>)
                    <=> i \in MissingRows

----------------------------------------------------------------------------
(* Decoding of the status byte *)

\* the kind of a status byte by its high nibble
StandardKind(high_nibble) ==
    CASE high_nibble = 8 -> <<"Note Off">>
      [] high_nibble = 9 -> <<"Note On">>
      [] high_nibble = 10 -> <<"Polyphonic Key Pressure">>
      [] high_nibble = 11 -> <<"Control Change">>
      [] high_nibble = 12 -> <<"Program Change">>
      [] high_nibble = 13 -> <<"Channel Pressure">>
      [] high_nibble = 14 -> <<"Pitch Bend">>
      [] high_nibble = 15 -> <<"System Message">>
      [] OTHER -> <<"Unknown", 16 * high_nibble>>

\* C23: for every status byte the channel decoded is the low nibble plus one,
\* within 1..16; the kind is the standard kind of the high nibble, Unknown
\* below 0x80; decode_midi_message and lines 777-778 give the same command
\* and the same channel.
C23_DecodeByNibbles ==
    pc = "decoded"
        => LET status == inmsg[1]
           IN  /\ decoded.output.channel = (status % 16) + 1
               /\ decoded.output.channel \in 1..16
               /\ decoded.output.command_name = StandardKind(status \div 16)
               /\ decoded.output.command = 16 * (status \div 16)
               /\ decoded.command = decoded.output.command
               /\ decoded.channel = decoded.output.channel

\* the status byte 0xFF is a System Message on channel 16
C23_Witness ==
    /\ pc = "decoded"
    /\ inmsg[1] = 255
    /\ decoded.output.command_name = <<"System Message">>
    /\ decoded.output.channel = 16
    /\ decoded.command = 240

----------------------------------------------------------------------------
(* The path resolver *)

\* the text names a file from the root
AbsoluteText(text) == Len(text) > 0 /\ Head(text) = "/"

\* the last component of the text has a dot after a character of a name
ExtensionedText(text) ==
    \E n, d \in 1..Len(text) :
        /\ n < d
        /\ text[n] \notin {"/", "."}
        /\ text[d] = "."
        /\ \A k \in n..Len(text) : text[k] # "/"

\* C22: a file name that is absolute and has an extension comes back
\* unchanged from the resolver, whatever the default directory and the
\* default extension; resolving the result again gives the same text.
C22_AbsoluteWithExtensionUnchanged ==
    (/\ pc = "resolve"
     /\ AbsoluteText(resolve_in.filename)
     /\ ExtensionedText(resolve_in.filename))
        => \A i \in 1..Len(resolve_out) : resolve_out[i] = resolve_in.filename

\* "/d/m.x" resolved twice with the directory "p" and the extension "x"
C22_Witness ==
    /\ pc = "resolve"
    /\ resolve_in = [filename |-> <<"/", "d", "/", "m", ".", "x">>,
                     default_path |-> <<"p">>, default_ext |-> <<"x">>]
    /\ Len(resolve_out) = 2
    /\ resolve_out[2] = resolve_in.filename

----------------------------------------------------------------------------
(* The tick of the loop *)

\* C25: whenever the port is open and no message is pending, the loop
\* eventually reaches its sleep step (line 854), unless a message comes or
\* the program is interrupted first.
C25_Claim_IdleLoopSleeps ==
    (pc \in {"poll", "while"} /\ port_open /\ port = <<>>)
        ~> (pc = "sleep" \/ pc = "exit" \/ port # <<>>)

====
